---- MODULE Spec2Model ----
(***************************************************************************)
(* Model of src/threads/thread-sync.py: a pool of Job threads that take    *)
(* turns through one threading.Condition built on a non-reentrant          *)
(* threading.Lock, the least-served Job going next, and a controller       *)
(* (__main__) that spawns them, opens the gate, joins them and reads the   *)
(* counters.  SIGINT runs handle_sigint on the controller's thread.        *)
(***************************************************************************)
EXTENDS Integers, Sequences, FiniteSets, TLC

(* ------------------------------ bounds ---------------------------------- *)
\* largest pool size explored (THREADS_QTY is drawn from 1..MaxThreads)
MaxThreads == 3
\* a Job stops claiming turns once its counter has reached MaxCount
MaxCount == 2
\* number of SIGINT deliveries explored
MaxSignals == 2
\* number of spurious wakeups of condition.wait() explored
MaxSpurious == 1

(* --------------------------- program constants -------------------------- *)
ON == TRUE
OFF == FALSE
\* identity of the controller's thread as a lock owner; Jobs are 1..THREADS_QTY
MainThread == 0

VARIABLES
    THREADS_QTY,    \* pool size
    WORK_COUNTER,   \* AppControlFlags._WORK_COUNTER: insertion-ordered dict,
                    \*   a sequence of [k |-> name, v |-> count]
    keep_running,   \* AppControlFlags._keep_running
    wait,           \* AppControlFlags._wait
    lock_flag,      \* set of threads holding lock_flag (empty or a singleton)
    pc,             \* position of every Job
    active,         \* Job._active
    got_priority,   \* the local got_priority of Job.__waiting
    iter_size,      \* size of the dict when min_counter began iterating it
    iters,          \* completed iterations of the while loop of Job.run
    mpc,            \* position of the controller
    threads,        \* the controller's list of Job objects (their names)
    joined,         \* number of Jobs the controller has joined
    data,           \* the controller's final snapshot
    handlers,       \* stack of running handle_sigint frames (top is last)
    nsig,           \* SIGINTs delivered so far
    spurious,       \* spurious wakeups so far
    resumed,        \* Jobs whose evaluation in __waiting follows a return
                    \*   from condition.wait()
    stop_counter,   \* observer: .reg is the registry at the moment keep_running
                    \* became False, recorded when .on
    call            \* the last call of an AppControlFlags method made
                    \*   directly on a registry: method, argument, the
                    \*   registry before it and the value returned

vars == <<THREADS_QTY, WORK_COUNTER, keep_running, wait, lock_flag, pc, active,
          got_priority, iter_size, iters, mpc, threads, joined, data,
          handlers, nsig, spurious, resumed, stop_counter, call>>

Jobs == 1..THREADS_QTY

(* ------------------------- AppControlFlags ------------------------------ *)
HasKey(reg, name) == \E i \in DOMAIN reg : reg[i].k = name

KeyIndex(reg, name) == CHOOSE i \in DOMAIN reg : reg[i].k = name

add_counter_wrongkey(reg, name) ==
    IF HasKey(reg, name + 1)
    THEN [reg EXCEPT ![KeyIndex(reg, name + 1)].v = 0]
    ELSE Append(reg, [k |-> name + 1, v |-> 0])

add_counter_one(reg, name) ==
    IF HasKey(reg, name)
    THEN [reg EXCEPT ![KeyIndex(reg, name)].v = 1]
    ELSE Append(reg, [k |-> name, v |-> 1])

\* self._WORK_COUNTER[name] = 0
add_counter(reg, name) ==
    IF HasKey(reg, name)
    THEN [reg EXCEPT ![KeyIndex(reg, name)].v = 0]
    ELSE Append(reg, [k |-> name, v |-> 0])

\* self._WORK_COUNTER.get(name, 0)
get_counter(reg, name) ==
    IF HasKey(reg, name) THEN reg[KeyIndex(reg, name)].v ELSE 0

increment_counter_create(reg, name) ==
    IF HasKey(reg, name)
    THEN [i \in DOMAIN reg |->
            IF reg[i].k = name THEN [reg[i] EXCEPT !.v = @ + 1] ELSE reg[i]]
    ELSE Append(reg, [k |-> name, v |-> 1])

increment_counter_by2(reg, name) ==
    [i \in DOMAIN reg |->
        IF reg[i].k = name THEN [reg[i] EXCEPT !.v = @ + 2] ELSE reg[i]]

\* if name in self._WORK_COUNTER: self._WORK_COUNTER[name] += 1
increment_counter(reg, name) ==
    [i \in DOMAIN reg |->
        IF reg[i].k = name THEN [reg[i] EXCEPT !.v = @ + 1] ELSE reg[i]]

\* the scan of the builtin min(iterable, key=...): the running best is
\* replaced only by a strictly smaller key, so the first minimum wins
RECURSIVE MinScan(_, _, _)
MinScan(reg, i, best) ==
    IF i > Len(reg) THEN best
    ELSE MinScan(reg, i + 1, IF reg[i].v < reg[best].v THEN i ELSE best)

min_counter_last(reg) ==
    reg[CHOOSE i \in DOMAIN reg :
            /\ \A j \in DOMAIN reg : reg[i].v <= reg[j].v
            /\ \A j \in DOMAIN reg : j > i => reg[i].v < reg[j].v].k

\* min(self._WORK_COUNTER.keys(), key=lambda k: self._WORK_COUNTER[k])
min_counter(reg) == reg[MinScan(reg, 2, 1)].k

values_balanced_nonneg(reg) ==
    LET values == {reg[i].v : i \in DOMAIN reg}
    IN  Cardinality(values) = 1 /\ \A x \in values : x >= 0

\* values = set(values()); len(values) == 1 and next(iter(values)) > 0
values_balanced(reg) ==
    LET values == {reg[i].v : i \in DOMAIN reg}
    IN  Cardinality(values) = 1 /\ \A x \in values : x > 0

\* self._WORK_COUNTER.copy()
get_all_values(reg) == reg

(* ------------------------------ helpers --------------------------------- *)
Count(w) == get_counter(WORK_COUNTER, w)

\* condition.notify_all(): every parked Job leaves wait() and must take the
\* lock again
notify(p) ==
    IF \E w \in DOMAIN p : p[w] = "parked"
    THEN [p EXCEPT ![CHOOSE w \in DOMAIN p : p[w] = "parked"] = "woken"]
    ELSE p

notify_all(p) == [w \in DOMAIN p |-> IF p[w] = "parked" THEN "woken" ELSE p[w]]

\* no method has been called directly yet
NoCall == [op |-> "none", name |-> 0, before |-> <<>>, result |-> 0]

\* code of the controller runs only when no handle_sigint frame is on top
MainRuns == handlers = <<>>

Init ==
    /\ THREADS_QTY \in 1..MaxThreads
    /\ WORK_COUNTER = <<>>
    /\ keep_running = TRUE
    /\ wait = TRUE
    /\ lock_flag = {}
    /\ pc = [w \in 1..THREADS_QTY |-> "unborn"]
    /\ active = [w \in 1..THREADS_QTY |-> OFF]
    /\ got_priority = [w \in 1..THREADS_QTY |-> FALSE]
    /\ iter_size = [w \in 1..THREADS_QTY |-> 0]
    /\ iters = [w \in 1..THREADS_QTY |-> 0]
    /\ mpc = "spawn"
    /\ threads = <<>>
    /\ joined = 0
    /\ data = <<>>
    /\ handlers = <<>>
    /\ nsig = 0
    /\ spurious = 0
    /\ resumed = {}
    /\ stop_counter = [on |-> FALSE, reg |-> <<>>]
    /\ call = NoCall

(* ------------------------------ controller ------------------------------ *)
\* one pass of the for loop: Job(...) registers its counter without the
\* lock and starts its thread; threads.append(t)
Spawn ==
    /\ MainRuns
    /\ mpc = "spawn"
    /\ Len(threads) < THREADS_QTY
    /\ LET name == Len(threads) + 1 IN
        /\ WORK_COUNTER' = add_counter(WORK_COUNTER, name)
        /\ pc' = [pc EXCEPT ![name] = "loop"]
        /\ threads' = Append(threads, name)
    /\ UNCHANGED <<THREADS_QTY, keep_running, wait, lock_flag, active,
                   got_priority, iter_size, iters, mpc, joined, data,
                   handlers, nsig, spurious, resumed, stop_counter, call>>

\* with condition_flag: (entering)
HandshakeAcquire ==
    /\ MainRuns
    /\ mpc = "spawn"
    /\ Len(threads) = THREADS_QTY
    /\ lock_flag = {}
    /\ lock_flag' = {MainThread}
    /\ mpc' = "hs_locked"
    /\ UNCHANGED <<THREADS_QTY, WORK_COUNTER, keep_running, wait, pc, active,
                   got_priority, iter_size, iters, threads, joined, data,
                   handlers, nsig, spurious, resumed, stop_counter, call>>

\* app_control_flags.wait = False; condition_flag.notify_all()
HandshakeNotify ==
    /\ MainRuns
    /\ mpc = "hs_locked"
    /\ wait' = FALSE
    /\ pc' = notify_all(pc)
    /\ mpc' = "hs_notified"
    /\ UNCHANGED <<THREADS_QTY, WORK_COUNTER, keep_running, lock_flag, active,
                   got_priority, iter_size, iters, threads, joined, data,
                   handlers, nsig, spurious, resumed, stop_counter, call>>

\* leaving the with block
HandshakeRelease ==
    /\ MainRuns
    /\ mpc = "hs_notified"
    /\ lock_flag' = {}
    /\ mpc' = "join"
    /\ UNCHANGED <<THREADS_QTY, WORK_COUNTER, keep_running, wait, pc, active,
                   got_priority, iter_size, iters, threads, joined, data,
                   handlers, nsig, spurious, resumed, stop_counter, call>>

Join_nowait ==
    /\ MainRuns
    /\ mpc = "join"
    /\ joined < THREADS_QTY
    /\ joined' = joined + 1
    /\ UNCHANGED <<THREADS_QTY, WORK_COUNTER, keep_running, wait, lock_flag,
                   pc, active, got_priority, iter_size, iters, mpc, threads,
                   data, handlers, nsig, spurious, resumed,
                   stop_counter, call>>

\* t.join() returns once the Job's run() has returned
Join ==
    /\ MainRuns
    /\ mpc = "join"
    /\ joined < THREADS_QTY
    /\ pc[threads[joined + 1]] \in {"done", "dead"}
    /\ joined' = joined + 1
    /\ UNCHANGED <<THREADS_QTY, WORK_COUNTER, keep_running, wait, lock_flag,
                   pc, active, got_priority, iter_size, iters, mpc, threads,
                   data, handlers, nsig, spurious, resumed,
                   stop_counter, call>>

\* data = app_control_flags.get_all_values(), then the report and sys.exit
Snapshot ==
    /\ MainRuns
    /\ mpc = "join"
    /\ joined = THREADS_QTY
    /\ data' = get_all_values(WORK_COUNTER)
    /\ mpc' = "exit"
    /\ UNCHANGED <<THREADS_QTY, WORK_COUNTER, keep_running, wait, lock_flag,
                   pc, active, got_priority, iter_size, iters, threads,
                   joined, handlers, nsig, spurious, resumed,
                   stop_counter, call>>

(* ------------------------------ SIGINT ---------------------------------- *)
\* SIGINT is delivered: the interpreter calls handle_sigint on the
\* controller's thread, on top of whatever that thread was doing
Sigint ==
    /\ mpc # "exit"
    /\ nsig < MaxSignals
    /\ nsig' = nsig + 1
    /\ handlers' = Append(handlers, "h_enter")
    /\ UNCHANGED <<THREADS_QTY, WORK_COUNTER, keep_running, wait, lock_flag,
                   pc, active, got_priority, iter_size, iters, mpc, threads,
                   joined, data, spurious, resumed, stop_counter, call>>

\* with condition_flag: (entering) in handle_sigint
HandlerAcquire ==
    /\ handlers # <<>>
    /\ handlers[Len(handlers)] = "h_enter"
    /\ lock_flag = {}
    /\ lock_flag' = {MainThread}
    /\ handlers' = [handlers EXCEPT ![Len(handlers)] = "h_locked"]
    /\ UNCHANGED <<THREADS_QTY, WORK_COUNTER, keep_running, wait, pc, active,
                   got_priority, iter_size, iters, mpc, threads, joined, data,
                   nsig, spurious, resumed, stop_counter, call>>

HandlerStop_toggle ==
    /\ handlers # <<>>
    /\ handlers[Len(handlers)] = "h_locked"
    /\ keep_running' = ~keep_running
    /\ lock_flag' = {}
    /\ handlers' = SubSeq(handlers, 1, Len(handlers) - 1)
    /\ stop_counter' = IF stop_counter.on /\ keep_running
                         THEN [stop_counter EXCEPT !.reg = WORK_COUNTER]
                         ELSE stop_counter
    /\ UNCHANGED <<THREADS_QTY, WORK_COUNTER, wait, pc, active, got_priority,
                   iter_size, iters, mpc, threads, joined, data, nsig,
                   spurious, resumed, call>>

\* app_control_flags.keep_running = False, leave the with block, return
HandlerStop ==
    /\ handlers # <<>>
    /\ handlers[Len(handlers)] = "h_locked"
    /\ keep_running' = FALSE
    /\ lock_flag' = {}
    /\ handlers' = SubSeq(handlers, 1, Len(handlers) - 1)
    /\ stop_counter' = IF stop_counter.on /\ keep_running
                         THEN [stop_counter EXCEPT !.reg = WORK_COUNTER]
                         ELSE stop_counter
    /\ UNCHANGED <<THREADS_QTY, WORK_COUNTER, wait, pc, active, got_priority,
                   iter_size, iters, mpc, threads, joined, data, nsig,
                   spurious, resumed, call>>

(* -------------------------------- Job ----------------------------------- *)
can_proceed_nogate(w_wait, gp) == gp

can_proceed_noprio(w_wait, gp) == ~w_wait

\* if not self._control.wait and got_priority: break
can_proceed(w_wait, gp) == ~w_wait /\ gp

\* while self.__app_is_running(): the flag is read under the lock; the loop
\* body is entered, or run() logs "Finished successfully!" and returns
AppIsRunning_always(w) ==
    /\ pc[w] = "loop"
    /\ lock_flag = {}
    /\ Count(w) < MaxCount
    /\ pc' = [pc EXCEPT ![w] = "enter"]
    /\ UNCHANGED <<THREADS_QTY, WORK_COUNTER, keep_running, wait, lock_flag,
                   active, got_priority, iter_size, iters, mpc, threads,
                   joined, data, handlers, nsig, spurious, resumed,
                   stop_counter, call>>

AppIsRunning(w) ==
    /\ pc[w] = "loop"
    /\ lock_flag = {}
    /\ IF keep_running
       THEN /\ Count(w) < MaxCount
            /\ pc' = [pc EXCEPT ![w] = "enter"]
       ELSE pc' = [pc EXCEPT ![w] = "done"]
    /\ UNCHANGED <<THREADS_QTY, WORK_COUNTER, keep_running, wait, lock_flag,
                   active, got_priority, iter_size, iters, mpc, threads,
                   joined, data, handlers, nsig, spurious, resumed,
                   stop_counter, call>>

\* __waiting: with self._condition: (entering), and min() starts to iterate
\* over the keys of the dict
WaitingEnter(w) ==
    /\ pc[w] = "enter"
    /\ lock_flag = {}
    /\ lock_flag' = {w}
    /\ iter_size' = [iter_size EXCEPT ![w] = Len(WORK_COUNTER)]
    /\ pc' = [pc EXCEPT ![w] = "iter"]
    /\ UNCHANGED <<THREADS_QTY, WORK_COUNTER, keep_running, wait, active,
                   got_priority, iters, mpc, threads, joined, data, handlers,
                   nsig, spurious, resumed, stop_counter, call>>

\* condition.wait() returns after a notification: the lock is taken again and
\* the loop of __waiting evaluates min_counter() again
WaitingReacquire(w) ==
    /\ pc[w] = "woken"
    /\ lock_flag = {}
    /\ lock_flag' = {w}
    /\ iter_size' = [iter_size EXCEPT ![w] = Len(WORK_COUNTER)]
    /\ pc' = [pc EXCEPT ![w] = "iter"]
    /\ resumed' = resumed \cup {w}
    /\ UNCHANGED <<THREADS_QTY, WORK_COUNTER, keep_running, wait, active,
                   got_priority, iters, mpc, threads, joined, data, handlers,
                   nsig, spurious, stop_counter, call>>

\* the dict got a key (add_counter of the controller, which takes no lock)
\* while min() was iterating over it: RuntimeError "dictionary changed size
\* during iteration" leaves the with block and is caught in run()
WaitingFault(w) ==
    /\ pc[w] = "iter"
    /\ Len(WORK_COUNTER) # iter_size[w]
    /\ lock_flag' = {}
    /\ iter_size' = [iter_size EXCEPT ![w] = 0]
    /\ pc' = [pc EXCEPT ![w] = "dead"]
    /\ resumed' = resumed \ {w}
    /\ UNCHANGED <<THREADS_QTY, WORK_COUNTER, keep_running, wait, active,
                   got_priority, iters, mpc, threads, joined, data, handlers,
                   nsig, spurious, stop_counter, call>>

\* the thread has the priority and the gate is open: leave the loop,
\* increment_counter, wait = True, leave the with block
WaitingClaim(w) ==
    /\ pc[w] = "iter"
    /\ Len(WORK_COUNTER) = iter_size[w]
    /\ can_proceed(wait, w = min_counter(WORK_COUNTER))
    /\ WORK_COUNTER' = increment_counter(WORK_COUNTER, w)
    /\ wait' = TRUE
    /\ lock_flag' = {}
    /\ iter_size' = [iter_size EXCEPT ![w] = 0]
    /\ got_priority' = [got_priority EXCEPT ![w] = FALSE]
    /\ pc' = [pc EXCEPT ![w] = "critical"]
    /\ resumed' = resumed \ {w}
    /\ UNCHANGED <<THREADS_QTY, keep_running, active, iters, mpc, threads,
                   joined, data, handlers, nsig, spurious,
                   stop_counter, call>>

\* otherwise self._condition.wait(): the lock is released and the thread
\* parks until it is notified
WaitingPark(w) ==
    /\ pc[w] = "iter"
    /\ Len(WORK_COUNTER) = iter_size[w]
    /\ ~can_proceed(wait, w = min_counter(WORK_COUNTER))
    /\ got_priority' = [got_priority EXCEPT ![w] = (w = min_counter(WORK_COUNTER))]
    /\ lock_flag' = {}
    /\ iter_size' = [iter_size EXCEPT ![w] = 0]
    /\ pc' = [pc EXCEPT ![w] = "parked"]
    /\ resumed' = resumed \ {w}
    /\ UNCHANGED <<THREADS_QTY, WORK_COUNTER, keep_running, wait, active,
                   iters, mpc, threads, joined, data, handlers, nsig,
                   spurious, stop_counter, call>>

\* condition.wait() may return without a notification
SpuriousWakeup(w) ==
    /\ pc[w] = "parked"
    /\ spurious < MaxSpurious
    /\ spurious' = spurious + 1
    /\ pc' = [pc EXCEPT ![w] = "woken"]
    /\ UNCHANGED <<THREADS_QTY, WORK_COUNTER, keep_running, wait, lock_flag,
                   active, got_priority, iter_size, iters, mpc, threads,
                   joined, data, handlers, nsig, resumed, stop_counter, call>>

\* self._active = not self._active
Toggle_on(w) ==
    /\ pc[w] = "critical"
    /\ active' = [active EXCEPT ![w] = ON]
    /\ pc' = [pc EXCEPT ![w] = "toggled"]
    /\ UNCHANGED <<THREADS_QTY, WORK_COUNTER, keep_running, wait, lock_flag,
                   got_priority, iter_size, iters, mpc, threads, joined, data,
                   handlers, nsig, spurious, resumed, stop_counter, call>>

Toggle(w) ==
    /\ pc[w] = "critical"
    /\ active' = [active EXCEPT ![w] = ~active[w]]
    /\ pc' = [pc EXCEPT ![w] = "toggled"]
    /\ UNCHANGED <<THREADS_QTY, WORK_COUNTER, keep_running, wait, lock_flag,
                   got_priority, iter_size, iters, mpc, threads, joined, data,
                   handlers, nsig, spurious, resumed, stop_counter, call>>

\* __release_wait_flag: with self._condition: wait = False; notify_all()
ReleaseWaitFlag(w) ==
    /\ pc[w] = "toggled"
    /\ lock_flag = {}
    /\ wait' = FALSE
    /\ pc' = [notify_all(pc) EXCEPT ![w] = "log"]
    /\ UNCHANGED <<THREADS_QTY, WORK_COUNTER, keep_running, lock_flag, active,
                   got_priority, iter_size, iters, mpc, threads, joined, data,
                   handlers, nsig, spurious, resumed, stop_counter, call>>

\* the "Toggled n times" message (get_counter, read without the lock), then
\* time.sleep(STATE_CHANGE_DELAY) and back to the while test
LogAndSleep(w) ==
    /\ pc[w] = "log"
    /\ iters' = [iters EXCEPT ![w] = @ + 1]
    /\ pc' = [pc EXCEPT ![w] = "loop"]
    /\ UNCHANGED <<THREADS_QTY, WORK_COUNTER, keep_running, wait, lock_flag,
                   active, got_priority, iter_size, mpc, threads, joined,
                   data, handlers, nsig, spurious, resumed,
                   stop_counter, call>>

(* --------------------------- specification ------------------------------ *)
\* the steps the threads of the program take by themselves
Step ==
    \/ Spawn
    \/ HandshakeAcquire
    \/ HandshakeNotify
    \/ HandshakeRelease
    \/ Join
    \/ Snapshot
    \/ HandlerAcquire
    \/ HandlerStop
    \/ \E w \in Jobs : AppIsRunning(w)
    \/ \E w \in Jobs : WaitingEnter(w)
    \/ \E w \in Jobs : WaitingReacquire(w)
    \/ \E w \in Jobs : WaitingFault(w)
    \/ \E w \in Jobs : WaitingClaim(w)
    \/ \E w \in Jobs : WaitingPark(w)
    \/ \E w \in Jobs : Toggle(w)
    \/ \E w \in Jobs : ReleaseWaitFlag(w)
    \/ \E w \in Jobs : LogAndSleep(w)

\* and the events of the environment
Next ==
    \/ Step
    \/ Sigint
    \/ \E w \in Jobs : SpuriousWakeup(w)

Spec == Init /\ [][Next]_vars

TypeOK ==
    /\ THREADS_QTY \in 1..MaxThreads
    /\ keep_running \in BOOLEAN
    /\ wait \in BOOLEAN
    /\ Cardinality(lock_flag) <= 1
    /\ \A w \in Jobs : Count(w) \in 0..MaxCount

(* ------------------------- observed quantities -------------------------- *)
\* a Job is inside its critical step from its claim of a turn (the end of
\* __waiting) to its __release_wait_flag
InCritical(w) == pc[w] \in {"critical", "toggled"}

\* turns a Job has completed: it has left the with block of
\* __release_wait_flag that many times
Completed(w) == iters[w] + (IF pc[w] = "log" THEN 1 ELSE 0)

RECURSIVE SumCompleted(_)
SumCompleted(n) == IF n = 0 THEN 0 ELSE Completed(n) + SumCompleted(n - 1)

TurnsCompleted == SumCompleted(THREADS_QTY)

NoFault == \A w \in Jobs : pc[w] # "dead"

(* ------------------------------- C1 ------------------------------------- *)
\* C1: in every reachable state at most one Job is between its claim of a
\* turn and its release.
C1_MutualExclusion ==
    \A v \in Jobs : \A w \in Jobs : InCritical(v) /\ InCritical(w) => v = w

\* a Job is inside its critical step while another one, which now has the
\* smallest counter, evaluates the exit condition of __waiting
C1_Witness ==
    \E v \in Jobs : \E w \in Jobs :
        /\ v # w
        /\ InCritical(v)
        /\ pc[w] = "iter"
        /\ w = min_counter(WORK_COUNTER)

(* ------------------------------- C2 ------------------------------------- *)
\* C2: every turn is granted to the Job whose counter is, at that moment,
\* the smallest of the registry, and among equal counters to the one that
\* was registered first; with all counters 0 that is the first Job.
C2_GrantToMin ==
    [][\A i \in DOMAIN WORK_COUNTER :
          (/\ Len(WORK_COUNTER') = Len(WORK_COUNTER)
           /\ WORK_COUNTER'[i].v # WORK_COUNTER[i].v)
          => /\ \A j \in DOMAIN WORK_COUNTER :
                   WORK_COUNTER[j].v >= WORK_COUNTER[i].v
             /\ \A j \in DOMAIN WORK_COUNTER :
                   j < i => WORK_COUNTER[j].v > WORK_COUNTER[i].v
             /\ Len(WORK_COUNTER) = THREADS_QTY
             /\ ((\A j \in DOMAIN WORK_COUNTER : WORK_COUNTER[j].v = 0)
                    => i = 1 /\ WORK_COUNTER[1].k = threads[1])]_vars

\* three Jobs, the first is one turn ahead, the other two are level, and the
\* turn has gone to the second
C2_Witness ==
    /\ THREADS_QTY = 3
    /\ pc[2] = "critical"
    /\ Count(1) = 1 /\ Count(2) = 1 /\ Count(3) = 0

(* ------------------------------- C3 ------------------------------------- *)
\* C3 as stated: in a state in which the pool has completed exactly k*n
\* turns, k >= 1, every counter is k.
C3_Original ==
    \A k \in 1..MaxCount :
        TurnsCompleted = k * THREADS_QTY => \A w \in Jobs : Count(w) = k

\* C3 as amended: in a state in which the pool has completed exactly k*n
\* turns, k >= 1, and no Job is between its claim and its release, every
\* counter is k (a counter is incremented when the turn is claimed, not
\* when it is completed).
C3_RoundComplete ==
    \A k \in 1..MaxCount :
        (TurnsCompleted = k * THREADS_QTY /\ \A w \in Jobs : ~InCritical(w))
            => \A w \in Jobs : Count(w) = k

\* three Jobs have completed a full round and nobody holds a turn
C3_Witness ==
    /\ THREADS_QTY = 3
    /\ TurnsCompleted = 3
    /\ \A w \in Jobs : ~InCritical(w)

(* ------------------------------- C8 ------------------------------------- *)
\* C8: in every step a counter stays or grows by exactly 1, and it grows
\* only in the step in which its own Job claims a turn, the other counters
\* staying as they are.
C8_Monotonic ==
    [][\/ WORK_COUNTER' = WORK_COUNTER
       \/ \A i \in DOMAIN WORK_COUNTER :
            /\ i \in DOMAIN WORK_COUNTER'
            /\ WORK_COUNTER'[i].k = WORK_COUNTER[i].k
            /\ \/ WORK_COUNTER'[i].v = WORK_COUNTER[i].v
               \/ /\ WORK_COUNTER'[i].v = WORK_COUNTER[i].v + 1
                  /\ pc[WORK_COUNTER[i].k] = "iter"
                  /\ pc'[WORK_COUNTER[i].k] = "critical"
                  /\ \A j \in DOMAIN WORK_COUNTER \ {i} :
                        WORK_COUNTER'[j] = WORK_COUNTER[j]]_vars

\* a Job has claimed its second turn
C8_Witness == \E w \in Jobs : pc[w] = "critical" /\ Count(w) = 2

(* ------------------------------- C9 ------------------------------------- *)
\* C9: in every reachable state, after a shutdown request and in the final
\* snapshot too, two counters differ by at most 1.
C9_WithinOne ==
    /\ \A i \in DOMAIN WORK_COUNTER : \A j \in DOMAIN WORK_COUNTER :
          WORK_COUNTER[i].v - WORK_COUNTER[j].v <= 1
    /\ \A i \in DOMAIN data : \A j \in DOMAIN data : data[i].v - data[j].v <= 1

\* the controller has taken its snapshot after a shutdown and two counters
\* of it differ
C9_Witness ==
    /\ mpc = "exit"
    /\ ~keep_running
    /\ \E i \in DOMAIN data : \E j \in DOMAIN data : data[i].v = data[j].v + 1

(* ------------------------------- C10 ------------------------------------ *)
\* C10: in a pool of one the Job never waits for priority, and once it has
\* returned through the keep_running test its counter is the number of
\* iterations of its loop.
C10_SingleJob ==
    THREADS_QTY = 1 =>
        /\ pc[1] \in {"parked", "woken"} => got_priority[1]
        /\ pc[1] # "dead"
        /\ pc[1] = "done" => Count(1) = iters[1]

\* the single Job has returned after MaxCount iterations
C10_Witness ==
    /\ THREADS_QTY = 1
    /\ pc[1] = "done"
    /\ iters[1] = MaxCount
    /\ spurious > 0

(* ------------------------------- C4 ------------------------------------- *)
\* C4: after a shutdown request every Job terminates and the controller's
\* joins return.  A finite run refutes it when, with keep_running False and
\* handle_sigint returned, no thread can take a step although the
\* controller has not got past its joins.
C4_ShutdownCompletes ==
    (~keep_running /\ handlers = <<>> /\ NoFault /\ ~ENABLED Step)
        => mpc = "exit"

(* ------------------------------- C5 ------------------------------------- *)
\* C5: handle_sigint returns with keep_running False whatever it
\* interrupts: it is never entering its with block while the lock is held
\* by the very thread it runs on (the controller inside the handshake, or
\* an interrupted handle_sigint), which nothing would ever release.
C5_HandlerReturns ==
    ~(/\ handlers # <<>>
      /\ handlers[Len(handlers)] = "h_enter"
      /\ MainThread \in lock_flag)

(* ------------------------------- C6 ------------------------------------- *)
\* C6: while keep_running is True and no Job has faulted the pool does not
\* deadlock: as long as a Job has turns left to take (the bound MaxCount),
\* some thread can take a step.
C6_NeverDeadlocks ==
    (keep_running /\ NoFault /\ \E w \in Jobs : Count(w) < MaxCount)
        => ENABLED Step

(* ------------------------------- C7 ------------------------------------- *)
\* C7: after an error in one Job's loop the other Jobs go on being granted
\* turns while keep_running is True: with no SIGINT delivered, a Job dead
\* and another one with turns left to take, some thread can take a step.
C7_OthersContinue ==
    (/\ nsig = 0
     /\ \E w \in Jobs : pc[w] = "dead"
     /\ \E w \in Jobs : pc[w] \notin {"dead", "unborn"} /\ Count(w) < MaxCount)
        => ENABLED Step

(* ------------------------------- C11 ------------------------------------ *)
\* C11: a step of handle_sigint changes neither wait nor a counter nor a
\* Job; when handle_sigint returns keep_running is False, so a second call
\* leaves these as the first one left them; and keep_running, once False,
\* is never True again.
C11_StopIdempotent ==
    [][/\ handlers' # handlers =>
            /\ wait' = wait
            /\ WORK_COUNTER' = WORK_COUNTER
            /\ pc' = pc /\ active' = active
       /\ Len(handlers') < Len(handlers) => ~keep_running'
       /\ ~keep_running => ~keep_running']_vars

\* handle_sigint has returned twice, the second time with keep_running
\* already False, in a pool that had been granting turns
C11_Witness ==
    /\ nsig = 2
    /\ handlers = <<>>
    /\ ~keep_running
    /\ \E w \in Jobs : Count(w) > 0

(* ------------------------------- C12 ------------------------------------ *)
\* C12: the registry and the gate state are read and written only by the
\* thread that holds the lock: while a Job holds the lock no other thread
\* writes the registry (add_counter of Job.__init__) or reads it
\* (get_counter of the "Toggled" message), and while the controller holds
\* it no Job reads it.
C12_AccessUnderLock ==
    [][/\ \A w \in Jobs :
            lock_flag = {w} =>
                /\ WORK_COUNTER' # WORK_COUNTER => pc'[w] # pc[w]
                /\ \A v \in Jobs \ {w} : ~(pc[v] = "log" /\ pc'[v] = "loop")
       /\ lock_flag = {MainThread} =>
            \A v \in Jobs : ~(pc[v] = "log" /\ pc'[v] = "loop")]_vars

(* ------------------------------- C13 ------------------------------------ *)
\* C13: until the controller has set wait False in the handshake, which it
\* does only after the last Job has been registered and started, every
\* counter is 0 and every Job that has reached __waiting is still inside
\* it, evaluating or parked: none has claimed a turn and none has left it.
C13_NoTurnBeforeHandshake ==
    mpc \in {"spawn", "hs_locked"} =>
        /\ wait
        /\ \A i \in DOMAIN WORK_COUNTER : WORK_COUNTER[i].v = 0
        /\ \A w \in Jobs :
              pc[w] \in {"unborn", "loop", "enter", "iter", "parked",
                         "woken", "done"}

(* ------------------------------- C14 ------------------------------------ *)
\* C14: whenever a Job evaluates min_counter() inside __waiting the
\* registry is not empty and holds the Job's own name.
C14_RegisteredBeforeWaiting ==
    \A w \in Jobs :
        pc[w] = "iter" => Len(WORK_COUNTER) > 0 /\ HasKey(WORK_COUNTER, w)

\* a Job evaluates min_counter() while later Jobs are not yet registered
C14_Witness ==
    \E w \in Jobs :
        /\ pc[w] = "iter"
        /\ Len(WORK_COUNTER) < THREADS_QTY
        /\ iter_size[w] = Len(WORK_COUNTER)

(* ------------------------------- C15 ------------------------------------ *)
\* C15: the step of handle_sigint that sets keep_running False wakes every
\* Job that is parked in condition.wait() at that moment.
C15_ShutdownWakes ==
    [][(keep_running /\ ~keep_running') =>
          \A w \in Jobs : pc[w] = "parked" => pc'[w] = "woken"]_vars

(* ------------------------------- C16 ------------------------------------ *)
\* C16: with keep_running False, a Job that a notification has made
\* return from condition.wait() (no spurious wakeup has occurred) and that
\* evaluates the loop of __waiting again neither parks again nor claims a
\* turn.
C16_WokenJobExits ==
    [][\A w \in Jobs :
          (~keep_running /\ spurious = 0 /\ pc[w] = "iter" /\ w \in resumed)
              => pc'[w] \notin {"parked", "critical"}]_vars

(* ------------------------------- C17 ------------------------------------ *)
\* C17: once the controller has taken its snapshot every Job has
\* terminated, the snapshot has one entry for each spawned Job, in the
\* order of the spawning, and it equals the registry, which no longer
\* changes.
C17_SnapshotAfterJoin ==
    mpc = "exit" =>
        /\ \A w \in Jobs : pc[w] \in {"done", "dead"}
        /\ Len(data) = THREADS_QTY
        /\ \A i \in DOMAIN data : data[i].k = threads[i]
        /\ data = WORK_COUNTER

\* the snapshot of a pool of at least two Jobs that took turns
C17_Witness ==
    /\ mpc = "exit"
    /\ THREADS_QTY >= 2
    /\ \E i \in DOMAIN data : data[i].v > 0

(* ------------- AppControlFlags called directly on a registry ------------ *)
\* the registries the methods are tried on: any dict that add_counter and
\* increment_counter can build over the names 1..MaxThreads, with counters
\* up to MaxCount
Registries ==
    {reg \in UNION {[1..n -> [k : 1..MaxThreads, v : 0..MaxCount]] :
                        n \in 0..MaxThreads} :
        \A i \in DOMAIN reg : \A j \in DOMAIN reg : reg[i].k = reg[j].k => i = j}

RegInit ==
    /\ THREADS_QTY = MaxThreads
    /\ WORK_COUNTER \in Registries
    /\ keep_running = TRUE
    /\ wait = TRUE
    /\ lock_flag = {}
    /\ pc = [w \in 1..THREADS_QTY |-> "unborn"]
    /\ active = [w \in 1..THREADS_QTY |-> OFF]
    /\ got_priority = [w \in 1..THREADS_QTY |-> FALSE]
    /\ iter_size = [w \in 1..THREADS_QTY |-> 0]
    /\ iters = [w \in 1..THREADS_QTY |-> 0]
    /\ mpc = "spawn"
    /\ threads = <<>>
    /\ joined = 0
    /\ data = <<>>
    /\ handlers = <<>>
    /\ nsig = 0
    /\ spurious = 0
    /\ resumed = {}
    /\ stop_counter = [on |-> FALSE, reg |-> <<>>]
    /\ call = NoCall

\* what a direct call leaves alone
RegFrame ==
    UNCHANGED <<THREADS_QTY, keep_running, wait, lock_flag, pc, active,
                got_priority, iter_size, iters, mpc, threads, joined, data,
                handlers, nsig, spurious, resumed, stop_counter>>

\* a method that returns None is recorded with result 0
CallAddCounter(name) ==
    /\ WORK_COUNTER' = add_counter(WORK_COUNTER, name)
    /\ call' = [op |-> "add_counter", name |-> name,
                before |-> WORK_COUNTER, result |-> 0]
    /\ RegFrame

CallGetCounter(name) ==
    /\ call' = [op |-> "get_counter", name |-> name,
                before |-> WORK_COUNTER,
                result |-> get_counter(WORK_COUNTER, name)]
    /\ UNCHANGED WORK_COUNTER
    /\ RegFrame

CallIncrementCounter(name) ==
    /\ get_counter(WORK_COUNTER, name) < MaxCount
    /\ WORK_COUNTER' = increment_counter(WORK_COUNTER, name)
    /\ call' = [op |-> "increment_counter", name |-> name,
                before |-> WORK_COUNTER, result |-> 0]
    /\ RegFrame

\* min() of an empty dict raises ValueError: called on a registry with keys
CallMinCounter ==
    /\ Len(WORK_COUNTER) > 0
    /\ call' = [op |-> "min_counter", name |-> 0,
                before |-> WORK_COUNTER,
                result |-> min_counter(WORK_COUNTER)]
    /\ UNCHANGED WORK_COUNTER
    /\ RegFrame

CallValuesBalanced ==
    /\ call' = [op |-> "values_balanced", name |-> 0,
                before |-> WORK_COUNTER,
                result |-> values_balanced(WORK_COUNTER)]
    /\ UNCHANGED WORK_COUNTER
    /\ RegFrame

CallGetAllValues ==
    /\ call' = [op |-> "get_all_values", name |-> 0,
                before |-> WORK_COUNTER,
                result |-> get_all_values(WORK_COUNTER)]
    /\ UNCHANGED WORK_COUNTER
    /\ RegFrame

RegNext ==
    \/ \E name \in 1..MaxThreads : CallAddCounter(name)
    \/ \E name \in 1..MaxThreads : CallGetCounter(name)
    \/ \E name \in 1..MaxThreads : CallIncrementCounter(name)
    \/ CallMinCounter
    \/ CallValuesBalanced
    \/ CallGetAllValues

RegSpec == RegInit /\ [][RegNext]_vars

(* ------------------------------- C18 ------------------------------------ *)
\* C18: add_counter with a name that is already a key leaves the registry
\* as it was; the count of that name is not reset.
C18_DuplicateIgnored ==
    (call.op = "add_counter" /\ HasKey(call.before, call.name))
        => WORK_COUNTER = call.before

(* ------------------------------- C19 ------------------------------------ *)
\* C19: values_balanced() returns True exactly when the registry is not
\* empty, all its counts are equal and the common count is above zero; it
\* changes nothing.
C19_BalancedIff ==
    call.op = "values_balanced" =>
        /\ call.result <=>
              /\ Len(call.before) > 0
              /\ \A i \in DOMAIN call.before : \A j \in DOMAIN call.before :
                    call.before[i].v = call.before[j].v
              /\ \A i \in DOMAIN call.before : call.before[i].v > 0
        /\ WORK_COUNTER = call.before

\* values_balanced() has returned True for a registry of several names
C19_Witness ==
    /\ call.op = "values_balanced"
    /\ call.result = TRUE
    /\ Len(call.before) >= 2

(* ------------------------------- C20 ------------------------------------ *)
\* C20: for a name that is not a key, get_counter returns 0 and
\* increment_counter does nothing; the registry is the same after either.
C20_AbsentNameNoEffect ==
    /\ (call.op = "get_counter" /\ ~HasKey(call.before, call.name))
          => call.result = 0 /\ WORK_COUNTER = call.before
    /\ (call.op = "increment_counter" /\ ~HasKey(call.before, call.name))
          => WORK_COUNTER = call.before

\* increment_counter has been called with a name missing from a registry
\* that holds other names with counts
C20_Witness ==
    /\ call.op = "increment_counter"
    /\ ~HasKey(call.before, call.name)
    /\ \E i \in DOMAIN call.before : call.before[i].v > 0

(***************************************************************************)
(* The program with the stop observer switched on: HandlerStop records the *)
(* registry at the step in which keep_running goes from True to False.     *)
(***************************************************************************)
StopInit ==
    /\ THREADS_QTY \in 1..MaxThreads
    /\ WORK_COUNTER = <<>>
    /\ keep_running = TRUE
    /\ wait = TRUE
    /\ lock_flag = {}
    /\ pc = [w \in 1..THREADS_QTY |-> "unborn"]
    /\ active = [w \in 1..THREADS_QTY |-> OFF]
    /\ got_priority = [w \in 1..THREADS_QTY |-> FALSE]
    /\ iter_size = [w \in 1..THREADS_QTY |-> 0]
    /\ iters = [w \in 1..THREADS_QTY |-> 0]
    /\ mpc = "spawn"
    /\ threads = <<>>
    /\ joined = 0
    /\ data = <<>>
    /\ handlers = <<>>
    /\ nsig = 0
    /\ spurious = 0
    /\ resumed = {}
    /\ stop_counter = [on |-> TRUE, reg |-> <<>>]
    /\ call = NoCall

StopSpec == StopInit /\ [][Next]_vars

\* The count a Job had at the moment keep_running became False (0 for a Job
\* that was not registered yet).
CountAtStop(w) == get_counter(stop_counter.reg, w)

\* C21: after shutdown has been requested each Job claims at most one further
\* turn: once keep_running is False, every Job's count, up to and including
\* its final count and the snapshot taken at exit, is at most 1 greater than
\* its count at the moment keep_running became False.
C21_OneFurtherTurn ==
    (stop_counter.on /\ ~keep_running)
        => /\ \A w \in Jobs : Count(w) <= CountAtStop(w) + 1
           /\ \A w \in Jobs : get_counter(data, w) <= CountAtStop(w) + 1

\* A Job has left its loop after claiming exactly one turn after the stop
\* request, while another Job left without claiming any.
C21_Witness ==
    /\ stop_counter.on
    /\ ~keep_running
    /\ \E w, v \in Jobs :
          /\ pc[w] = "done"
          /\ pc[v] = "done"
          /\ CountAtStop(w) >= 1
          /\ Count(w) = CountAtStop(w) + 1
          /\ Count(v) = CountAtStop(v)

\* C22 (no lost wakeup): in no reachable state is the gate claimable (wait is
\* False) while the minimum-count Job is blocked in condition.wait() with no
\* notification left for it to process; every step that sets wait to False
\* wakes every Job blocked in condition.wait() in that same step; and the
\* minimum-count Job only changes in a step that sets wait to True.
C22_NoLostWakeup ==
    /\ []((~wait /\ WORK_COUNTER # <<>>)
              => pc[min_counter(WORK_COUNTER)] # "parked")
    /\ [][((wait /\ ~wait')
              => (\A w \in Jobs : pc[w] = "parked" => pc'[w] # "parked"))
          /\ ((/\ WORK_COUNTER' # WORK_COUNTER
               /\ WORK_COUNTER # <<>>
               /\ min_counter(WORK_COUNTER') # min_counter(WORK_COUNTER))
              => wait')]_vars

\* After a turn was released, the minimum-count Job has been notified and has
\* yet to run, while another Job that woke first has gone back to sleep.
C22_Witness ==
    /\ ~wait
    /\ WORK_COUNTER # <<>>
    /\ pc[min_counter(WORK_COUNTER)] = "woken"
    /\ \E v \in Jobs : pc[v] = "parked" /\ v \in DOMAIN iters /\ iters[v] >= 1

\* C23: a Job's private _active flag is toggled once per turn it is granted
\* and by nothing else: whenever a Job is not inside its critical step its
\* _active is ON exactly when its count is odd, _active changes only in the
\* Job's own critical step, and no step changes the _active of two Jobs.
C23_ActivePrivate ==
    /\ [](\A w \in Jobs :
              ~InCritical(w) => ((active[w] = ON) <=> (Count(w) % 2 = 1)))
    /\ [][\A w \in Jobs :
              active'[w] # active[w]
                  => /\ pc[w] = "critical"
                     /\ pc'[w] = "toggled"
                     /\ \A v \in Jobs \ {w} : active'[v] = active[v]]_vars

\* One Job has finished two turns and is OFF again while another has finished
\* one turn and is ON.
C23_Witness ==
    \E w, v \in Jobs :
        /\ ~InCritical(w)
        /\ ~InCritical(v)
        /\ Count(w) = 2
        /\ active[w] = OFF
        /\ Count(v) = 1
        /\ active[v] = ON
====
